---- MODULE Spec2Model ----
(***************************************************************************)
(* The streaming retry engine of gemini-antiblock-go                       *)
(* (streaming/retry.go: Session.Process and BuildRetryRequestBody),        *)
(* together with the line tokenizer goroutines it starts and the upstream  *)
(* bodies they read.                                                       *)
(*                                                                         *)
(* Text is a sequence of tokens: "a", "b" stand for formal text, "t" for   *)
(* thought text, " " for white space and "[done]" for the six-character    *)
(* sentinel.  String concatenation is \o on these sequences.               *)
(***************************************************************************)
EXTENDS Integers, Sequences, FiniteSets, TLC

(***************************************************************************)
(* Bounds of the model.                                                    *)
(***************************************************************************)
\* upstream lines delivered in one session, over all bodies
MaxLines == 2
\* largest configured MaxConsecutiveRetries
MaxRetryLimit == 2
\* longest contents array of an original request body
MaxContents == 3
\* retry bodies built from one original request body
MaxBuilds == 2
\* longest systemInstruction.parts array of an inbound request body
MaxParts == 2
\* goroutines that call Write and Flush of one SafeWriter
MaxCallers == 2
\* calls of Write and Flush by one goroutine
MaxCalls == 2

(***************************************************************************)
(* Program constants.                                                      *)
(***************************************************************************)
\* capacity of the line channel: make(chan string, 100)
lineChCap == 100
\* code of the retry-exhaustion error frame
errorCode == 504

VARIABLES
    cfg,                    \* s.cfg: MaxConsecutiveRetries, SwallowThoughtsAfterRetry
    originalRequestBody,    \* s.originalRequestBody
    pc,                     \* position of Process
    currentReader,          \* the body Process reads: index into bodies
    accumulatedText,        \* s.accumulatedText
    consecutiveRetryCount,  \* s.consecutiveRetryCount
    isOutputtingFormalText, \* s.isOutputtingFormalText
    swallowModeActive,      \* s.swallowModeActive
    interruptionReason,     \* reason of the latest interrupted attempt
    bodies,                 \* upstream bodies: lines read so far, end reached
    toks,                   \* tokenizer goroutines, in start order
    downstream,             \* what the response sink has received
    writeFailed,            \* a Write on the response sink has returned an error
    requests,               \* retry requests sent upstream, with their reason
    last,                   \* the latest step of Process (history)
    inbound,                \* r: the downstream request ServeHTTP is called with
    waits,                  \* keys RateLimiter.Wait has been called with, in order
    initial,                \* the first upstream request and the response to it
    response,               \* w: status line and body written outside Process
    spare,                  \* backing array of the contents slice of
                            \* s.originalRequestBody: the slots beyond its length
    safeWriter              \* the SafeWriter around w, and the goroutines in
                            \* its Write and Flush

vars == <<cfg, originalRequestBody, pc, currentReader, accumulatedText,
          consecutiveRetryCount, isOutputtingFormalText, swallowModeActive,
          interruptionReason, bodies, toks, downstream, writeFailed, requests,
          last, inbound, waits, initial, response, spare, safeWriter>>

\* the state of ServeHTTP and the handlers it calls, and the slots no step of
\* the loop over the lines writes to
handlerVars == <<inbound, waits, initial, response, spare, safeWriter>>

(***************************************************************************)
(* Text helpers.                                                           *)
(***************************************************************************)
IsSpace(c) == c = " "

RECURSIVE TrimLeft(_)
TrimLeft(s) ==
    IF s = <<>> THEN <<>>
    ELSE IF IsSpace(Head(s)) THEN TrimLeft(Tail(s)) ELSE s

RECURSIVE TrimRight(_)
TrimRight(s) ==
    IF s = <<>> THEN <<>>
    ELSE IF IsSpace(s[Len(s)]) THEN TrimRight(SubSeq(s, 1, Len(s) - 1)) ELSE s

\* variant: the text is tested without trimming
TrimSpaceMissing(s) == s

\* strings.TrimSpace
TrimSpace(s) == TrimRight(TrimLeft(s))

\* strings.HasSuffix for one token
EndsWith(s, x) == s # <<>> /\ s[Len(s)] = x

(***************************************************************************)
(* Upstream lines.  A line is the parsed shape of one SSE line: whether it *)
(* starts with the data prefix, the parts of candidates[0].content, the    *)
(* finish reason of candidates[0] and whether a block reason is present.   *)
(***************************************************************************)
Part(text, thought) == [text |-> text, thought |-> thought]

Ln(data, parts, fin, blk) ==
    [data |-> data, parts |-> parts, finishReason |-> fin, blockReason |-> blk]

\* the empty separator line between two SSE events
BlankLine == Ln(FALSE, <<>>, "", FALSE)

\* the lines an upstream body is made of in a session
UpstreamLines ==
    { BlankLine,
      Ln(TRUE, <<Part(<<"a">>, FALSE)>>, "", FALSE),
      Ln(TRUE, <<Part(<<"t">>, TRUE)>>, "", FALSE),
      Ln(TRUE, <<Part(<<"a">>, FALSE)>>, "STOP", FALSE),
      Ln(TRUE, <<Part(<<" ">>, FALSE)>>, "", FALSE),
      Ln(TRUE, <<>>, "STOP", FALSE),
      Ln(TRUE, <<Part(<<"a", "[done]">>, FALSE)>>, "MAX_TOKENS", FALSE),
      Ln(TRUE, <<Part(<<"t">>, TRUE)>>, "STOP", FALSE),
      Ln(TRUE, <<>>, "", TRUE),
      Ln(TRUE, <<Part(<<"a">>, FALSE)>>, "OTHER", FALSE) }

(***************************************************************************)
(* Chunk classifier (streaming/sse.go).                                    *)
(***************************************************************************)
IsDataLine(line) == line.data

RECURSIVE PartsText(_)
PartsText(parts) ==
    IF parts = <<>> THEN <<>> ELSE Head(parts).text \o PartsText(Tail(parts))

ParseLineContent(line) ==
    [Text |-> PartsText(line.parts),
     IsThought |-> \E i \in 1..Len(line.parts) : line.parts[i].thought]

ExtractFinishReason(line) == IF line.data THEN line.finishReason ELSE ""

IsBlockedLine(line) ==
    line.data /\ (line.blockReason \/ line.finishReason = "SAFETY")

\* index of the last part that carries text, 0 when there is none
LastTextPart(parts) ==
    IF \E i \in 1..Len(parts) : parts[i].text # <<>>
    THEN CHOOSE i \in 1..Len(parts) :
            /\ parts[i].text # <<>>
            /\ \A j \in (i + 1)..Len(parts) : parts[j].text = <<>>
    ELSE 0

RemoveDoneTokenFromLine(line, isEndOfResponse) ==
    LET k == LastTextPart(line.parts) IN
    IF line.data /\ k # 0 /\ EndsWith(line.parts[k].text, "[done]")
    THEN [line EXCEPT !.parts[k].text = SubSeq(@, 1, Len(@) - 1)]
    ELSE line

(***************************************************************************)
(* Request bodies.  contents is the value of the "contents" key: an array  *)
(* of entries or something else; an entry has a string role or none.       *)
(***************************************************************************)
Entry(role, text) == [role |-> role, text |-> text]

Body(isArray, items) == [contents |-> [isArray |-> isArray, items |-> items]]

ContinueText == <<"Continue exactly where you left off without any preamble or repetition.">>

\* variant: the model message without the text delivered so far
HistoryWithoutText(accText) == << Entry("model", <<>>), Entry("user", ContinueText) >>

\* the two-message continuation block
History(accText) == << Entry("model", accText), Entry("user", ContinueText) >>

\* variant: the search stops at the first user entry instead of the last
LastUserIndexFromFront(contents) ==
    IF \E i \in 1..Len(contents) : contents[i].role = "user"
    THEN CHOOSE i \in 1..Len(contents) :
            /\ contents[i].role = "user"
            /\ \A j \in 1..(i - 1) : contents[j].role # "user"
    ELSE 0

\* Go's lastUserIndex + 1; 0 when no entry has role user
LastUserIndex(contents) ==
    IF \E i \in 1..Len(contents) : contents[i].role = "user"
    THEN CHOOSE i \in 1..Len(contents) :
            /\ contents[i].role = "user"
            /\ \A j \in (i + 1)..Len(contents) : contents[j].role # "user"
    ELSE 0

BuildRetryRequestBody(originalBody, accText) ==
    LET contents == IF originalBody.contents.isArray
                    THEN originalBody.contents.items ELSE <<>>
        lastUserIndex == LastUserIndex(contents)
        newContents ==
            IF lastUserIndex # 0
            THEN SubSeq(contents, 1, lastUserIndex) \o History(accText)
                 \o SubSeq(contents, lastUserIndex + 1, Len(contents))
            ELSE contents \o History(accText)
    IN  [originalBody EXCEPT !.contents = [isArray |-> TRUE, items |-> newContents]]

\* the request body a session starts from: a user turn followed by a model turn
SessionBody == Body(TRUE, << Entry("user", <<"q">>), Entry("model", <<"m">>) >>)

(***************************************************************************)
(* What the response sink receives.                                        *)
(***************************************************************************)
\* src of a frame or step: <<body, number of the line in the body, tokenizer>>
NoSrc == <<0, 0, 0>>

NoError == [code |-> 0, status |-> "", reason |-> "", limit |-> 0, chars |-> 0]

\* a forwarded upstream line
LineFrame(src, line) ==
    [kind |-> "line", src |-> src, line |-> line, error |-> NoError]

\* data: {"candidates": [{"content": {"parts": [{"text": "[done]"}]}}]}
doneLine == Ln(TRUE, <<Part(<<"[done]">>, FALSE)>>, "", FALSE)

DoneFrame == [kind |-> "done", src |-> NoSrc, line |-> doneLine, error |-> NoError]

\* variant: the error frame with the code and status of an internal error
ErrorFrameInternal(limit, reason, chars) ==
    [kind |-> "error", src |-> NoSrc, line |-> BlankLine,
     error |-> [code |-> 500, status |-> "INTERNAL",
                reason |-> reason, limit |-> limit, chars |-> chars]]

\* event: error, with the payload of the retry-exhaustion error
ErrorFrame(limit, reason, chars) ==
    [kind |-> "error", src |-> NoSrc, line |-> BlankLine,
     error |-> [code |-> errorCode, status |-> "DEADLINE_EXCEEDED",
                reason |-> reason, limit |-> limit, chars |-> chars]]

(***************************************************************************)
(* Upstream bodies and tokenizer goroutines.                               *)
(***************************************************************************)
\* a response body nobody has read from yet
NewBody == [n |-> 0, eof |-> FALSE]

\* variant: every tokenizer reads the initial body
NewTokenizerOnInitial(reader) == [reader |-> 1, ch |-> <<>>, done |-> FALSE]

\* go SSELineIterator(reader, lineCh) with lineCh := make(chan string, 100)
NewTokenizer(reader) == [reader |-> reader, ch |-> <<>>, done |-> FALSE]

RECURSIVE LinesRead(_)
LinesRead(bs) == IF bs = <<>> THEN 0 ELSE Head(bs).n + LinesRead(Tail(bs))

\* Body.Close() of every response body when the handler is left
CloseAll(bs) == [b \in 1..Len(bs) |-> [bs[b] EXCEPT !.eof = TRUE]]

nonRetryableStatuses == {400, 401, 403, 404, 429}

\* outcomes of a failed retry request: a transport error (0), a status of
\* nonRetryableStatuses and another status that is not 200
FailedStatuses == {0, 429, 500}

NoStep == [op |-> "none", src |-> NoSrc, line |-> BlankLine, how |-> "", status |-> 0]

Step(op, src, line, how, status) ==
    [op |-> op, src |-> src, line |-> line, how |-> how, status |-> status]

(***************************************************************************)
(* JSON documents.  A Go map[string]interface{} is a function from its     *)
(* keys to values; an interface{} value is one of the tagged records       *)
(* below.                                                                  *)
(***************************************************************************)
Null == [type |-> "null"]

JString(s) == [type |-> "string", s |-> s]

JNumber(n) == [type |-> "number", n |-> n]

JArray(items) == [type |-> "array", items |-> items]

JObject(fields) == [type |-> "object", fields |-> fields]

\* make(map[string]interface{})
EmptyMap == [k \in {} |-> Null]

\* val, exists := m[k]
Has(m, k) == k \in DOMAIN m

\* m[k] = v
Put(m, k, v) == [x \in DOMAIN m \cup {k} |-> IF x = k THEN v ELSE m[x]]

\* the bytes of a body: JSON text of a value in some layout, or no JSON at all
Bytes(value, layout) == [json |-> TRUE, layout |-> layout, value |-> value]

NotJSON(layout) == [json |-> FALSE, layout |-> layout, value |-> Null]

\* json.Unmarshal(bodyBytes, &m) into a nil map[string]interface{}
Unmarshal(b) ==
    IF ~b.json THEN [err |-> TRUE, nil |-> TRUE, m |-> EmptyMap]
    ELSE IF b.value.type = "object"
         THEN [err |-> FALSE, nil |-> FALSE, m |-> b.value.fields]
    ELSE IF b.value.type = "null"
         THEN [err |-> FALSE, nil |-> TRUE, m |-> EmptyMap]
    ELSE [err |-> TRUE, nil |-> TRUE, m |-> EmptyMap]

\* json.Marshal(m) of a map that is not nil
Marshal(m) == Bytes(JObject(m), "compact")

(***************************************************************************)
(* System prompt injection (handlers/proxy.go, handlers/injector.go).      *)
(***************************************************************************)
SentinelInstruction == "IMPORTANT: At the very end of your entire response, you must write the token [done] to signal completion. This is a mandatory technical requirement."

newSystemPromptPart == JObject([text |-> JString(SentinelInstruction)])

\* variant: the new part replaces the parts that were there
WithNewPartOnly(parts) == JArray(<<newSystemPromptPart>>)

\* append(parts, newSystemPromptPart)
WithNewPart(parts) == JArray(Append(parts, newSystemPromptPart))

\* InjectSystemPrompt on a map that is not nil: the map as it is afterwards
InjectSystemPrompt(body) ==
    LET instruction == body["systemInstruction"].fields IN
    IF ~Has(body, "systemInstruction")
    THEN Put(body, "systemInstruction",
             JObject([parts |-> JArray(<<newSystemPromptPart>>)]))
    ELSE IF body["systemInstruction"].type = "null"
    THEN Put(body, "systemInstruction",
             JObject([parts |-> JArray(<<newSystemPromptPart>>)]))
    ELSE IF body["systemInstruction"].type # "object"
    THEN Put(body, "systemInstruction",
             JObject([parts |-> JArray(<<newSystemPromptPart>>)]))
    ELSE IF ~Has(instruction, "parts")
    THEN Put(body, "systemInstruction",
             JObject(Put(instruction, "parts", JArray(<<newSystemPromptPart>>))))
    ELSE IF instruction["parts"].type # "array"
    THEN Put(body, "systemInstruction",
             JObject(Put(instruction, "parts", JArray(<<newSystemPromptPart>>))))
    ELSE Put(body, "systemInstruction",
             JObject(Put(instruction, "parts",
                         WithNewPart(instruction["parts"].items))))

\* NewSystemPromptInjector(reader): what the injector will send, the map for
\* the retries, and whether the call returns an error or panics (the
\* assignment to an entry of the nil map that "null" is decoded to)
NewSystemPromptInjector(reader) ==
    LET parsed == Unmarshal(reader.bytes) IN
    IF ~reader.readable
    THEN [err |-> TRUE, panic |-> FALSE,
          processedBody |-> reader.bytes, requestBodyForRetry |-> EmptyMap]
    ELSE IF parsed.err
    THEN [err |-> FALSE, panic |-> FALSE,
          processedBody |-> reader.bytes, requestBodyForRetry |-> EmptyMap]
    ELSE IF parsed.nil
    THEN [err |-> FALSE, panic |-> TRUE,
          processedBody |-> reader.bytes, requestBodyForRetry |-> EmptyMap]
    ELSE [err |-> FALSE, panic |-> FALSE,
          processedBody |-> Marshal(InjectSystemPrompt(parsed.m)),
          requestBodyForRetry |-> InjectSystemPrompt(parsed.m)]

(***************************************************************************)
(* Downstream requests and what the handlers write (handlers/proxy.go).    *)
(***************************************************************************)
\* header values are sequences of characters; "Bearer " is one token
KeyLong == <<"k", "e", "y", "1">>

KeyShort == <<"a", "b", "c">>

\* values of the X-Goog-Api-Key header, <<>> when the header is absent
ApiKeyHeaders == { <<>>, KeyLong, KeyShort }

\* values of the Authorization header, <<>> when the header is absent
AuthorizationHeaders ==
    { <<>>, <<"Bearer ">> \o KeyLong, <<"Bearer ">>, <<"Basic ", "x">> }

\* a part of systemInstruction.parts that is not the sentinel part
UserPart == JObject([text |-> JString("x")])

\* the parts arrays a request body comes with
ExistingParts ==
    UNION { [1..n -> {UserPart, newSystemPromptPart}] : n \in 0..MaxParts }

\* the shapes of systemInstruction a request body comes with
SystemInstructions ==
    { Null, JString("s"), JObject(EmptyMap),
      JObject([parts |-> Null]), JObject([parts |-> JString("p")]) }
    \cup { JObject([role |-> JString("system"), parts |-> JArray(ps)]) :
              ps \in ExistingParts }

LegacyInstruction == JObject([parts |-> JArray(<< JObject([text |-> JString("legacy")]) >>)])

BaseMap == [contents |-> JArray(<< JObject([role |-> JString("user")]) >>)]

\* request bodies that are JSON objects, as maps
ObjectBodies ==
    LET canonical == { BaseMap } \cup
                     { Put(BaseMap, "systemInstruction", si) : si \in SystemInstructions }
    IN  canonical \cup { Put(m, "system_instruction", LegacyInstruction) : m \in canonical }

\* r.Body: readable or failing, and the bytes it delivers
InboundBodies ==
    { [readable |-> TRUE, bytes |-> Bytes(JObject(m), layout)] :
         m \in ObjectBodies, layout \in {"compact", "spaced"} }
    \cup { [readable |-> TRUE, bytes |-> b] :
              b \in { NotJSON("empty"), NotJSON("garbage"), Bytes(Null, "compact"),
                      Bytes(JArray(<<>>), "compact"), Bytes(JString("s"), "compact") } }
    \cup { [readable |-> FALSE, bytes |-> NotJSON("empty")] }

\* the downstream requests ServeHTTP is called with
InboundRequests ==
    [method : {"POST", "GET", "OPTIONS"}, isStream : BOOLEAN,
     apiKey : ApiKeyHeaders, authorization : AuthorizationHeaders,
     body : InboundBodies]

\* strings.HasPrefix(authHeader, "Bearer ")
HasBearerPrefix(authHeader) == authHeader # <<>> /\ Head(authHeader) = "Bearer "

\* the key ServeHTTP enforces the rate limit for, <<>> when there is none
ApiKey(r) ==
    IF r.apiKey # <<>> THEN r.apiKey
    ELSE IF HasBearerPrefix(r.authorization) THEN Tail(r.authorization)
    ELSE <<>>

\* nothing has been sent upstream
NoInitial ==
    [sent |-> FALSE, body |-> NotJSON("empty"), requestBodyForRetry |-> EmptyMap,
     status |-> 0, errorBody |-> NotJSON("empty")]

\* nothing has been written to w
NoResponse == [status |-> 0, contentType |-> "", body |-> NotJSON("empty")]

StatusToGoogleStatus(code) ==
    CASE code = 400 -> "INVALID_ARGUMENT"
      [] code = 401 -> "UNAUTHENTICATED"
      [] code = 403 -> "PERMISSION_DENIED"
      [] code = 404 -> "NOT_FOUND"
      [] code = 429 -> "RESOURCE_EXHAUSTED"
      [] code = 500 -> "INTERNAL"
      [] code = 503 -> "UNAVAILABLE"
      [] code = 504 -> "DEADLINE_EXCEEDED"
      [] OTHER -> "UNKNOWN"

\* JSONError(w, code, message, details)
JSONError(code, message, details) ==
    [status |-> code, contentType |-> "application/json; charset=utf-8",
     body |-> Marshal([error |-> JObject([code |-> JNumber(code),
                                          message |-> JString(message),
                                          status |-> JString(StatusToGoogleStatus(code)),
                                          details |-> JString(details)])])]

\* the status string is added to an error object that has a numeric code and
\* no status
WithGoogleStatus(errorResp) ==
    LET errorObj == errorResp["error"].fields IN
    IF /\ Has(errorResp, "error")
       /\ errorResp["error"].type = "object"
       /\ ~Has(errorObj, "status")
       /\ Has(errorObj, "code")
       /\ errorObj["code"].type = "number"
    THEN Put(errorResp, "error",
             JObject(Put(errorObj, "status",
                         JString(StatusToGoogleStatus(errorObj["code"].n)))))
    ELSE errorResp

\* what is written for an upstream response whose status is not 200;
\* message is the message of the fallback error
UpstreamErrorResponse(status, errorBody, message) ==
    LET parsed == Unmarshal(errorBody) IN
    IF ~parsed.err
    THEN [status |-> status, contentType |-> "application/json; charset=utf-8",
          body |-> IF parsed.nil THEN Bytes(Null, "compact")
                   ELSE Marshal(WithGoogleStatus(parsed.m))]
    ELSE JSONError(status, message, "errorBody")

\* the headers and the status line of the streaming response
StreamingResponse ==
    [status |-> 200, contentType |-> "text/event-stream; charset=utf-8",
     body |-> NotJSON("empty")]

\* statuses of an upstream response other than 200
ErrorStatuses == {204, 400, 429, 500}

\* bodies of an upstream response whose status is not 200
ErrorBodies ==
    { NotJSON("garbage"),
      Bytes(Null, "compact"),
      Bytes(JObject(EmptyMap), "spaced"),
      Bytes(JObject([error |-> JString("e")]), "spaced"),
      Bytes(JObject([error |-> JObject([message |-> JString("m")])]), "spaced"),
      Bytes(JObject([error |-> JObject([code |-> JNumber(429),
                                        message |-> JString("m")])]), "spaced"),
      Bytes(JObject([error |-> JObject([code |-> JNumber(429),
                                        message |-> JString("m"),
                                        status |-> JString("QUOTA")])]), "spaced") }

\* the request of a session: a streaming POST without a key
SessionRequest ==
    [method |-> "POST", isStream |-> TRUE, apiKey |-> <<>>, authorization |-> <<>>,
     body |-> [readable |-> TRUE, bytes |-> Bytes(JObject(BaseMap), "compact")]]

\* NewSafeWriter(w): the mutex unlocked, no goroutine in Write or Flush
NewSafeWriter ==
    [mu |-> 0,
     flusher |-> TRUE,
     at |-> [c \in 1..MaxCallers |-> "idle"],
     op |-> [c \in 1..MaxCallers |-> "Write"],
     calls |-> [c \in 1..MaxCallers |-> 0],
     inSink |-> {}]

\* the handler state in which HandleStreamingPost calls Process
AtProcess ==
    /\ inbound = SessionRequest
    /\ waits = <<>>
    /\ initial = [sent |-> TRUE,
                  body |-> NewSystemPromptInjector(SessionRequest.body).processedBody,
                  requestBodyForRetry |->
                      NewSystemPromptInjector(SessionRequest.body).requestBodyForRetry,
                  status |-> 200, errorBody |-> NotJSON("empty")]
    /\ response = StreamingResponse
    /\ spare = <<>>
    /\ safeWriter = NewSafeWriter

(***************************************************************************)
(* Session.                                                                *)
(***************************************************************************)
Init ==
    /\ cfg \in [MaxConsecutiveRetries : 0..MaxRetryLimit,
                SwallowThoughtsAfterRetry : BOOLEAN]
    /\ originalRequestBody = SessionBody
    /\ pc = "start"
    /\ currentReader = 1
    /\ accumulatedText = <<>>
    /\ consecutiveRetryCount = 0
    /\ isOutputtingFormalText = FALSE
    /\ swallowModeActive = FALSE
    /\ interruptionReason = ""
    /\ bodies = << NewBody >>
    /\ toks = <<>>
    /\ downstream = <<>>
    /\ writeFailed = FALSE
    /\ requests = <<>>
    /\ last = NoStep
    /\ AtProcess

\* Process up to the first receive from lineCh
ProcessStart ==
    /\ pc = "start"
    /\ pc' = "loop"
    /\ toks' = << NewTokenizer(currentReader) >>
    /\ UNCHANGED <<handlerVars, cfg, originalRequestBody, currentReader, accumulatedText,
                   consecutiveRetryCount, isOutputtingFormalText,
                   swallowModeActive, interruptionReason, bodies, downstream,
                   writeFailed, requests, last>>

\* the goroutine t is blocked in "lineCh <- line": the buffer of the channel
\* is full, and the line being sent is the entry of ch after the buffer
Blocked(t) == Len(toks[t].ch) > lineChCap

\* one iteration of scanner.Scan() in the tokenizer goroutine t, with the
\* send of the line it returns, for a body that is made of the given lines;
\* more: Scan can return another line
SSELineIteratorOn(t, lines, more) ==
    /\ ~toks[t].done
    /\ ~Blocked(t)
    /\ LET b == toks[t].reader IN
       \/ /\ more
          /\ \E line \in lines :
                toks' = [toks EXCEPT ![t].ch =
                            Append(@, [src |-> <<b, bodies[b].n + 1, t>>, line |-> line])]
          /\ bodies' = [bodies EXCEPT ![b].n = @ + 1]
       \/ /\ bodies' = [bodies EXCEPT ![b].eof = TRUE]
          /\ toks' = [toks EXCEPT ![t].done = TRUE]
    /\ UNCHANGED <<handlerVars, cfg, originalRequestBody, pc, currentReader, accumulatedText,
                   consecutiveRetryCount, isOutputtingFormalText,
                   swallowModeActive, interruptionReason, downstream,
                   writeFailed, requests, last>>

\* the body b has not ended, has not been closed, and is not at the bound
HasMore(b) == ~bodies[b].eof /\ LinesRead(bodies) < MaxLines

SSELineIterator(t) == SSELineIteratorOn(t, UpstreamLines, HasMore(toks[t].reader))

\* variant: an abnormal finish reason is not recognised
ClassifyWithoutAbnormal(line, accText) ==
    LET content == IF IsDataLine(line) THEN ParseLineContent(line)
                   ELSE [Text |-> <<>>, IsThought |-> FALSE]
        finishReason == ExtractFinishReason(line)
    IN  IF finishReason # "" /\ content.IsThought THEN "FINISH_DURING_THOUGHT"
        ELSE IF IsBlockedLine(line) THEN "BLOCK"
        ELSE IF finishReason = "STOP"
             THEN IF Len(TrimSpace(accText \o content.Text)) = 0
                  THEN "FINISH_EMPTY_RESPONSE" ELSE ""
        ELSE ""

\* the interruption a line causes, "" when it causes none
Classify(line, accText) ==
    LET content == IF IsDataLine(line) THEN ParseLineContent(line)
                   ELSE [Text |-> <<>>, IsThought |-> FALSE]
        finishReason == ExtractFinishReason(line)
    IN  IF finishReason # "" /\ content.IsThought THEN "FINISH_DURING_THOUGHT"
        ELSE IF IsBlockedLine(line) THEN "BLOCK"
        ELSE IF finishReason = "STOP"
             THEN IF Len(TrimSpace(accText \o content.Text)) = 0
                  THEN "FINISH_EMPTY_RESPONSE" ELSE ""
        ELSE IF finishReason # "" /\ finishReason # "MAX_TOKENS" /\ finishReason # "STOP"
             THEN "FINISH_ABNORMAL"
        ELSE ""

\* variant: the limit compared with > instead of >=
LimitReachedOffByOne == consecutiveRetryCount > cfg.MaxConsecutiveRetries

\* if s.consecutiveRetryCount >= s.cfg.MaxConsecutiveRetries
LimitReached == consecutiveRetryCount >= cfg.MaxConsecutiveRetries

\* variant: the test does not look at isOutputtingFormalText
SwallowWantedWithoutText == cfg.SwallowThoughtsAfterRetry

\* s.cfg.SwallowThoughtsAfterRetry && s.isOutputtingFormalText
SwallowWanted == cfg.SwallowThoughtsAfterRetry /\ isOutputtingFormalText

\* variant: an interruption never starts swallow mode
SwallowAfterInterruptionNever(swallow) == swallow

\* if ... { s.swallowModeActive = true }
SwallowAfterInterruption(swallow) ==
    IF SwallowWanted THEN TRUE ELSE swallow

\* Process from the end of an interrupted attempt to the retry request or
\* the return; swallow is swallowModeActive as the attempt left it
Interrupted(reason, swallow) ==
    /\ interruptionReason' = reason
    /\ swallowModeActive' = SwallowAfterInterruption(swallow)
    /\ IF LimitReached
       THEN /\ \E ok \in BOOLEAN :
                 /\ downstream' =
                       IF ok THEN Append(downstream,
                                     ErrorFrame(cfg.MaxConsecutiveRetries, reason,
                                                Len(accumulatedText)))
                       ELSE downstream
                 /\ writeFailed' = ~ok
            /\ pc' = "failed"
            /\ bodies' = CloseAll(bodies)
            /\ UNCHANGED <<consecutiveRetryCount, requests>>
       ELSE /\ consecutiveRetryCount' = consecutiveRetryCount + 1
            /\ requests' = Append(requests,
                              [body |-> BuildRetryRequestBody(originalRequestBody,
                                                              accumulatedText),
                               reason |-> reason])
            /\ pc' = "request"
            /\ UNCHANGED <<downstream, writeFailed, bodies>>
    /\ UNCHANGED <<accumulatedText, isOutputtingFormalText>>

\* variant: the clean exit without the synthesized [done] line
WriteDoneMissing(written) == written

\* the final [done] line is written after what was written
WriteDone(written) == Append(written, DoneFrame)

\* variant: the loop goes on after the clean exit
AfterCleanExitNoBreak == "loop"

\* cleanExit = true; break; ... return nil
AfterCleanExit == "done"

\* variant: the error of a failed write is ignored and the loop goes on
AfterWriteFailureContinue == "loop"

\* return fmt.Errorf("failed to write ...: %w", err)
AfterWriteFailure == "aborted"

\* variant: thought text counts as formal text
IsFormalTextAlsoThought(textChunk, isThought) == textChunk # <<>>

\* if textChunk != "" && !isThought
IsFormalText(textChunk, isThought) == textChunk # <<>> /\ ~isThought

\* Process forwards a line: the writes, the accumulation and the clean exit
Forward(e, textChunk, isThought, finishReason) ==
    LET isEndOfResponse == finishReason = "STOP" \/ finishReason = "MAX_TOKENS"
        processedLine == RemoveDoneTokenFromLine(e.line, isEndOfResponse)
        written == Append(downstream, LineFrame(e.src, processedLine))
        formal == IsFormalText(textChunk, isThought)
    IN
    /\ swallowModeActive' = FALSE
    /\ \E ok \in BOOLEAN :
        IF ~ok
        THEN /\ pc' = AfterWriteFailure
             /\ writeFailed' = TRUE
             /\ bodies' = CloseAll(bodies)
             /\ last' = Step("line", e.src, e.line, "abort", 0)
             /\ UNCHANGED <<downstream, accumulatedText, isOutputtingFormalText>>
        ELSE /\ isOutputtingFormalText' = (formal \/ isOutputtingFormalText)
             /\ accumulatedText' =
                   IF formal THEN accumulatedText \o textChunk ELSE accumulatedText
             /\ last' = Step("line", e.src, e.line, "write", 0)
             /\ IF isEndOfResponse
                THEN /\ bodies' = CloseAll(bodies)
                     /\ \E okDone \in BOOLEAN :
                          IF okDone
                          THEN /\ downstream' = WriteDone(written)
                               /\ pc' = AfterCleanExit
                               /\ writeFailed' = writeFailed
                          ELSE /\ downstream' = written
                               /\ pc' = AfterWriteFailure
                               /\ writeFailed' = TRUE
                ELSE /\ downstream' = written
                     /\ UNCHANGED <<pc, bodies, writeFailed>>
    /\ UNCHANGED <<consecutiveRetryCount, requests, interruptionReason>>

\* variant: a blocked thought chunk is not swallowed
SwallowsUnlessBlocked(line, isThought) ==
    swallowModeActive /\ isThought /\ ~IsBlockedLine(line)

\* if s.swallowModeActive { if isThought {
Swallows(line, isThought) == swallowModeActive /\ isThought

\* one iteration of "for line := range lineCh", through to what follows it
HandleLine ==
    /\ pc = "loop"
    /\ toks[Len(toks)].ch # <<>>
    /\ LET t == Len(toks)
           e == Head(toks[t].ch)
           content == IF IsDataLine(e.line) THEN ParseLineContent(e.line)
                      ELSE [Text |-> <<>>, IsThought |-> FALSE]
           textChunk == content.Text
           isThought == content.IsThought
           finishReason == ExtractFinishReason(e.line)
           reason == Classify(e.line, accumulatedText)
       IN
       /\ toks' = [toks EXCEPT ![t].ch = Tail(@)]
       /\ IF Swallows(e.line, isThought)
          THEN IF finishReason # ""
               THEN /\ Interrupted("FINISH_DURING_THOUGHT", swallowModeActive)
                    /\ last' = Step("line", e.src, e.line, "retry", 0)
               ELSE /\ last' = Step("line", e.src, e.line, "swallow", 0)
                    /\ UNCHANGED <<pc, accumulatedText, consecutiveRetryCount,
                                   isOutputtingFormalText, swallowModeActive,
                                   interruptionReason, bodies, downstream,
                                   writeFailed, requests>>
          ELSE IF reason # ""
               THEN /\ Interrupted(reason, FALSE)
                    /\ last' = Step("line", e.src, e.line, "retry", 0)
               ELSE Forward(e, textChunk, isThought, finishReason)
    /\ UNCHANGED <<handlerVars, cfg, originalRequestBody, currentReader>>

\* variant: the loop does not see that the channel was closed
RangeEndsNever(t) == FALSE

\* "for line := range lineCh" ends: lineCh is closed and empty
RangeEnds(t) == toks[t].ch = <<>> /\ toks[t].done

\* the attempt ends without a finish reason
StreamEnd ==
    /\ pc = "loop"
    /\ RangeEnds(Len(toks))
    /\ Interrupted("DROP", swallowModeActive)
    /\ last' = Step("end", <<currentReader, 0, Len(toks)>>, BlankLine, "retry", 0)
    /\ UNCHANGED <<handlerVars, cfg, originalRequestBody, currentReader, toks>>

\* s.client.Do(retryReq) returns, and Process goes back to the top of the loop
RetryResponse ==
    /\ pc = "request"
    /\ pc' = "loop"
    /\ \/ \E status \in FailedStatuses :
            /\ last' = Step("resp", <<currentReader, 0, Len(toks) + 1>>, BlankLine, "fail", status)
            /\ toks' = Append(toks, NewTokenizer(currentReader))
            /\ UNCHANGED <<currentReader, bodies>>
       \/ /\ last' = Step("resp", <<Len(bodies) + 1, 0, Len(toks) + 1>>, BlankLine, "ok", 200)
          /\ bodies' = Append(bodies, NewBody)
          /\ currentReader' = Len(bodies) + 1
          /\ toks' = Append(toks, NewTokenizer(Len(bodies) + 1))
    /\ UNCHANGED <<handlerVars, cfg, originalRequestBody, accumulatedText, consecutiveRetryCount,
                   isOutputtingFormalText, swallowModeActive, interruptionReason,
                   downstream, writeFailed, requests>>

Next ==
    \/ ProcessStart
    \/ \E t \in 1..Len(toks) : SSELineIterator(t)
    \/ HandleLine
    \/ StreamEnd
    \/ RetryResponse

Spec == Init /\ [][Next]_vars

TypeOK ==
    /\ pc \in {"start", "loop", "request", "done", "failed", "aborted"}
    /\ consecutiveRetryCount \in 0..MaxRetryLimit
    /\ currentReader \in 1..Len(bodies)

(***************************************************************************)
(* Properties.                                                             *)
(***************************************************************************)
Terminal == pc \in {"done", "failed", "aborted"}

\* number of frames of a kind the sink has received
Count(kind) ==
    Cardinality({i \in 1..Len(downstream) : downstream[i].kind = kind})

\* the frames the sink has received are forwarded lines up to the last one
OnlyLinesBeforeLast ==
    \A i \in 1..(Len(downstream) - 1) : downstream[i].kind = "line"

\* C1 as stated: when Process has returned, exactly one terminal event (the
\* final [done] line or an error frame) has been written, whatever the
\* downstream writes returned.
C1_ExactlyOneTerminalEvent ==
    Terminal => Count("done") + Count("error") = 1

\* C1 amended: when Process has returned, exactly one terminal event has been
\* written if no downstream write failed (the [done] line after success, the
\* error frame after retry exhaustion) and none if a write failed; before the
\* return none has been written.
C1_TerminalEventUnlessWriteFailed ==
    /\ Terminal =>
          Count("done") + Count("error") = (IF writeFailed THEN 0 ELSE 1)
    /\ (pc = "done") => Count("done") = 1 /\ ~writeFailed
    /\ (pc = "failed") => Count("done") = 0
    /\ (pc = "aborted") => writeFailed
    /\ ~Terminal => Count("done") + Count("error") = 0 /\ ~writeFailed

\* a session that succeeded after a retry, with its [done] line written
C1_Witness ==
    /\ pc = "done"
    /\ consecutiveRetryCount >= 1
    /\ downstream[Len(downstream)] = DoneFrame

\* C2 as stated: every session that has ended wrote exactly one synthesized
\* [done] line, and it is the last thing written.
C2_ExactlyOneDoneLine ==
    Terminal =>
       /\ Count("done") = 1
       /\ downstream[Len(downstream)].kind = "done"

\* C2 amended: the sink never receives more than one synthesized [done] line;
\* it has received one exactly when Process has returned success, and nothing
\* is written after it.
C2_DoneLineOnlyOnSuccessAndLast ==
    /\ Count("done") <= 1
    /\ (Count("done") = 1) <=> (pc = "done")
    /\ \A i \in 1..Len(downstream) :
          downstream[i].kind = "done" => i = Len(downstream)

\* a successful session that forwarded two lines before the [done] line
C2_Witness ==
    /\ pc = "done"
    /\ Len(downstream) = 3
    /\ downstream[3].kind = "done"

\* an interruption happens in this step
InterruptionStep == last' # last /\ last'.how = "retry"

\* C3: the counter never exceeds MaxConsecutiveRetries; a step changes it only
\* by adding one, and exactly when it sends a retry request, also after a
\* retry stream has delivered text; an interruption with the counter at the
\* limit ends the session in failure without a retry request.
C3_RetryCounterBounded ==
    [][ /\ consecutiveRetryCount' <= cfg.MaxConsecutiveRetries
        /\ consecutiveRetryCount' \in
              {consecutiveRetryCount, consecutiveRetryCount + 1}
        /\ Len(requests') = consecutiveRetryCount'
        /\ (InterruptionStep /\ consecutiveRetryCount = cfg.MaxConsecutiveRetries)
              => (pc' = "failed" /\ requests' = requests)
        /\ (InterruptionStep /\ consecutiveRetryCount < cfg.MaxConsecutiveRetries)
              => (pc' = "request" /\ Len(requests') = Len(requests) + 1)
      ]_vars

\* a session that failed at the limit after a retry stream had delivered text
C3_Witness ==
    /\ pc = "failed"
    /\ cfg.MaxConsecutiveRetries >= 1
    /\ consecutiveRetryCount = cfg.MaxConsecutiveRetries
    /\ \E i \in 1..Len(downstream) :
          downstream[i].kind = "line" /\ downstream[i].src[1] >= 2

\* C4 as stated: a session that ends by retry exhaustion has written exactly
\* one error frame with code 504 and status DEADLINE_EXCEEDED, as the last
\* thing written, after the forwarded lines.
C4_ExactlyOneErrorFrame ==
    (pc = "failed") =>
       /\ Count("error") = 1
       /\ downstream[Len(downstream)].kind = "error"
       /\ downstream[Len(downstream)].error.code = 504
       /\ downstream[Len(downstream)].error.status = "DEADLINE_EXCEEDED"
       /\ OnlyLinesBeforeLast

\* C4 amended: a session ends by retry exhaustion with the counter at the
\* limit; if the write of the error frame succeeded the sink holds exactly one
\* error frame, with code 504 and status DEADLINE_EXCEEDED, as the last thing
\* written after the forwarded lines; if that write failed (its result is
\* ignored) the sink holds no error frame.  No error frame is written
\* otherwise.
C4_ErrorFrameOnExhaustion ==
    /\ (pc = "failed") =>
          /\ consecutiveRetryCount = cfg.MaxConsecutiveRetries
          /\ IF writeFailed
             THEN Count("error") = 0
             ELSE /\ Count("error") = 1
                  /\ downstream[Len(downstream)].kind = "error"
                  /\ downstream[Len(downstream)].error.code = 504
                  /\ downstream[Len(downstream)].error.status = "DEADLINE_EXCEEDED"
                  /\ downstream[Len(downstream)].error.limit = cfg.MaxConsecutiveRetries
                  /\ downstream[Len(downstream)].error.reason = interruptionReason
                  /\ OnlyLinesBeforeLast
    /\ (pc # "failed") => Count("error") = 0

\* retry exhaustion after two retries, with text forwarded before the frame
C4_Witness ==
    /\ pc = "failed"
    /\ consecutiveRetryCount = 2
    /\ Len(downstream) >= 2
    /\ downstream[Len(downstream)].kind = "error"

\* the tokenizer t was started after a failed retry request, on the body of
\* the attempt before it
StaleTokenizer(t) == t >= 2 /\ toks[t].reader = toks[t - 1].reader

\* C5: a failed retry request (transport error or any status but 200) costs
\* one unit of the counter and nothing else: nothing is written downstream
\* because of it, and the session does not end in success after it until a
\* retry request has succeeded.
C5_FailedRetryOnlyCounts ==
    /\ Len(requests) = consecutiveRetryCount
    /\ (last.op = "resp" /\ last.how = "fail") => pc = "loop"
    /\ \A i \in 1..Len(downstream) :
          downstream[i].kind = "line" => ~StaleTokenizer(downstream[i].src[3])
    /\ (toks # <<>> /\ StaleTokenizer(Len(toks))) => pc # "done"

IsThoughtLine(line) == IsDataLine(line) /\ ParseLineContent(line).IsThought

\* a frame that carries a thought-flagged chunk
ThoughtFrame(f) == f.kind = "line" /\ IsThoughtLine(f.line)

\* a frame that carries a non-thought text chunk
FormalFrame(f) ==
    /\ f.kind = "line"
    /\ IsDataLine(f.line)
    /\ ~IsThoughtLine(f.line)
    /\ ParseLineContent(f.line).Text # <<>>

WrittenCount(src) ==
    Cardinality({i \in 1..Len(downstream) :
                    downstream[i].kind = "line" /\ downstream[i].src = src})

\* no upstream line (body, number) is written twice
NoLineWrittenTwice ==
    \A i, j \in 1..Len(downstream) :
       ( /\ i # j
         /\ downstream[i].kind = "line"
         /\ downstream[j].kind = "line" )
       => <<downstream[i].src[1], downstream[i].src[2]>>
            # <<downstream[j].src[1], downstream[j].src[2]>>

\* no blocked line and no line with an abnormal finish reason is visible
NoInterruptingLineVisible ==
    \A i \in 1..Len(downstream) :
       downstream[i].kind = "line" =>
          /\ ~IsBlockedLine(downstream[i].line)
          /\ ExtractFinishReason(downstream[i].line) \in {"", "STOP", "MAX_TOKENS"}

\* C7 as stated: a consumed line is swallowed, or dropped because it triggers
\* a retry, or written downstream exactly once; no line is written twice and
\* no blocked or abnormal-finish line is visible.
C7_LineHandledOneOfThreeWays ==
    /\ (last.op = "line") =>
          /\ last.how = "swallow" \/ last.how = "retry" \/ WrittenCount(last.src) = 1
          /\ last.how \in {"swallow", "retry"} => WrittenCount(last.src) = 0
    /\ NoLineWrittenTwice
    /\ NoInterruptingLineVisible

\* C7 amended: a consumed line is swallowed, or dropped because it triggers a
\* retry, or written downstream exactly once, or its write fails and the
\* session is aborted with the line unwritten; no line is written twice and
\* no blocked or abnormal-finish line is visible.
C7_LineHandledOneWay ==
    /\ (last.op = "line") =>
          /\ last.how \in {"swallow", "retry", "write", "abort"}
          /\ WrittenCount(last.src) = (IF last.how = "write" THEN 1 ELSE 0)
          /\ (last.how = "swallow") => IsThoughtLine(last.line) /\ pc = "loop"
          /\ (last.how = "retry") =>
                pc \in {"request", "failed"} /\ Classify(last.line, accumulatedText) # ""
          /\ (last.how = "abort") => pc = "aborted" /\ writeFailed
    /\ NoLineWrittenTwice
    /\ NoInterruptingLineVisible

\* an abnormal-finish line has been dropped after a line was forwarded
C7_Witness ==
    /\ last.op = "line"
    /\ last.how = "retry"
    /\ interruptionReason = "FINISH_ABNORMAL"
    /\ Len(downstream) >= 1
    /\ WrittenCount(last.src) = 0

\* the message a retry request carries right after the last user turn of the
\* original contents
ModelMessage(req) ==
    req.body.contents.items[LastUserIndex(originalRequestBody.contents.items) + 1]

\* the frames of the lines of body b, in the order they were written
FramesOf(b) ==
    SelectSeq(downstream, LAMBDA f : f.kind = "line" /\ f.src[1] = b)

\* the text of the non-thought chunks of a sequence of frames
RECURSIVE FramesText(_)
FramesText(frames) ==
    IF frames = <<>> THEN <<>>
    ELSE (IF FormalFrame(Head(frames))
          THEN ParseLineContent(Head(frames).line).Text ELSE <<>>)
         \o FramesText(Tail(frames))

\* the initial stream ended without a finish reason, the one retry request
\* was answered 200 and its stream finished with STOP
DropThenStop ==
    /\ pc = "done"
    /\ Len(requests) = 1
    /\ requests[1].reason = "DROP"
    /\ Len(bodies) = 2
    /\ last.op = "line"
    /\ ExtractFinishReason(last.line) = "STOP"

\* C8: a stream that ends without finish reason and without interruption is
\* recorded as DROP; a retry request carries as its model message the
\* accumulatedText of the moment it is built; after DROP and a retry stream
\* that finishes with STOP the sink holds the lines of the first stream, then
\* those of the second, then one [done] line, and the counter is 1.
C8_DropRetryCarriesAccumulatedText ==
    /\ (last.op = "end") =>
          /\ interruptionReason = "DROP"
          /\ (pc = "request") => requests[Len(requests)].reason = "DROP"
    /\ (pc = "request") =>
          ModelMessage(requests[Len(requests)]) = Entry("model", accumulatedText)
    /\ DropThenStop =>
          /\ consecutiveRetryCount = 1
          /\ Count("done") = 1
          /\ downstream[Len(downstream)] = DoneFrame
          /\ Len(FramesOf(1)) = bodies[1].n
          /\ downstream = FramesOf(1) \o FramesOf(2) \o << DoneFrame >>
          /\ ModelMessage(requests[1]).text = FramesText(FramesOf(1))
          /\ accumulatedText = FramesText(FramesOf(1)) \o FramesText(FramesOf(2))

\* "a" forwarded, the body closed, the retry stream finished with STOP
C8_Witness ==
    /\ DropThenStop
    /\ ModelMessage(requests[1]).text = <<"a">>
    /\ Len(downstream) = 3
    /\ FramesText(FramesOf(2)) = <<"a">>

\* a text that is empty once trimmed
AllSpaces(s) == \A i \in 1..Len(s) : s[i] = " "

\* a non-thought, non-blocked data line with finish reason STOP
PlainStopLine(line) ==
    /\ IsDataLine(line)
    /\ ExtractFinishReason(line) = "STOP"
    /\ ~IsThoughtLine(line)
    /\ ~IsBlockedLine(line)

\* C9: a non-thought, non-blocked STOP line triggers FINISH_EMPTY_RESPONSE
\* exactly when accumulatedText followed by its text is empty once trimmed;
\* a STOP line with empty text as first chunk of the initial stream is not
\* forwarded and, with MaxConsecutiveRetries >= 1, one retry request with
\* reason FINISH_EMPTY_RESPONSE is issued for it.
C9_EmptyStopTriggersRetry ==
    (last.op = "line" /\ PlainStopLine(last.line)) =>
       LET text == ParseLineContent(last.line).Text IN
       /\ last.how \in {"retry", "write", "abort"}
       /\ (last.how = "retry") =>
             /\ interruptionReason = "FINISH_EMPTY_RESPONSE"
             /\ AllSpaces(accumulatedText \o text)
       /\ (last.how = "write") => ~AllSpaces(accumulatedText)
       /\ (last.how = "abort") => ~AllSpaces(accumulatedText \o text)
       /\ (last.src[1] = 1 /\ last.src[2] = 1 /\ text = <<>>) =>
             /\ last.how = "retry"
             /\ downstream = <<>> \/ (Len(downstream) = 1 /\ pc = "failed")
             /\ WrittenCount(last.src) = 0
             /\ (cfg.MaxConsecutiveRetries >= 1) =>
                   /\ pc = "request"
                   /\ consecutiveRetryCount = 1
                   /\ Len(requests) = 1
                   /\ requests[1].reason = "FINISH_EMPTY_RESPONSE"

\* the first chunk of the initial stream was STOP with empty text
C9_Witness ==
    /\ last.op = "line"
    /\ PlainStopLine(last.line)
    /\ ParseLineContent(last.line).Text = <<>>
    /\ last.src = <<1, 1, 1>>
    /\ pc = "request"
    /\ Len(requests) = 1
    /\ requests[1].reason = "FINISH_EMPTY_RESPONSE"

(***************************************************************************)
(* BuildRetryRequestBody on its own: every original body up to MaxContents *)
(* entries, every accumulated text of BuildTexts, MaxBuilds retries.       *)
(***************************************************************************)
\* role of an entry: user, model, or no string role (also: not a mapping)
Roles == {"user", "model", "none"}

\* the text of the entry at a position, different at every position
PosText(i) == << <<"p1">>, <<"p2">>, <<"p3">>, <<"p4">>, <<"p5">> >>[i]

\* original request bodies: contents an array of entries, or not an array
BuildBodies ==
    { Body(FALSE, <<>>) } \cup
    UNION { { Body(TRUE, [i \in 1..n |-> Entry(r[i], PosText(i))]) :
                r \in [1..n -> Roles] } : n \in 0..MaxContents }

BuildTexts == { <<>>, <<"a">>, <<"a", " ">> }

InitBuild ==
    /\ cfg = [MaxConsecutiveRetries |-> MaxBuilds, SwallowThoughtsAfterRetry |-> TRUE]
    /\ originalRequestBody \in BuildBodies
    /\ pc = "build"
    /\ currentReader = 1
    /\ accumulatedText = <<>>
    /\ consecutiveRetryCount = 0
    /\ isOutputtingFormalText = FALSE
    /\ swallowModeActive = FALSE
    /\ interruptionReason = ""
    /\ bodies = << NewBody >>
    /\ toks = <<>>
    /\ downstream = <<>>
    /\ writeFailed = FALSE
    /\ requests = <<>>
    /\ last = NoStep
    /\ AtProcess

\* retryBody := BuildRetryRequestBody(s.originalRequestBody, s.accumulatedText)
BuildStep ==
    /\ pc = "build"
    /\ consecutiveRetryCount < cfg.MaxConsecutiveRetries
    /\ \E accText \in BuildTexts :
          /\ accumulatedText' = accText
          /\ requests' = Append(requests,
                            [body |-> BuildRetryRequestBody(originalRequestBody, accText),
                             reason |-> "DROP"])
    /\ consecutiveRetryCount' = consecutiveRetryCount + 1
    /\ UNCHANGED <<handlerVars, cfg, originalRequestBody, pc, currentReader,
                   isOutputtingFormalText, swallowModeActive, interruptionReason,
                   bodies, toks, downstream, writeFailed, last>>

NextBuild == BuildStep

SpecBuild == InitBuild /\ [][NextBuild]_vars

\* the contents array of the original body, empty when it is not an array
OriginalContents ==
    IF originalRequestBody.contents.isArray
    THEN originalRequestBody.contents.items ELSE <<>>

\* p entries of the original contents precede the continuation block
IsInsertionPoint(p) ==
    IF \E i \in 1..Len(OriginalContents) : OriginalContents[i].role = "user"
    THEN /\ p \in 1..Len(OriginalContents)
         /\ OriginalContents[p].role = "user"
         /\ \A j \in (p + 1)..Len(OriginalContents) : OriginalContents[j].role # "user"
    ELSE p = Len(OriginalContents)

\* C10: the contents of every retry body are the original contents with the
\* block {model: accumulatedText}, {user: the fixed directive} inserted right
\* after the last user entry, or appended when there is no user entry; the
\* other entries keep their order, and the block is there for an empty text.
C10_ContinuationBlockAfterLastUser ==
    \A k \in 1..Len(requests) :
       LET new == requests[k].body.contents.items IN
       /\ requests[k].body.contents.isArray
       /\ Len(new) = Len(OriginalContents) + 2
       /\ \E p \in 0..Len(OriginalContents) :
             /\ IsInsertionPoint(p)
             /\ SubSeq(new, 1, p) = SubSeq(OriginalContents, 1, p)
             /\ new[p + 1].role = "model"
             /\ (k = Len(requests)) => new[p + 1] = Entry("model", accumulatedText)
             /\ new[p + 2] =
                   Entry("user", <<"Continue exactly where you left off without any preamble or repetition.">>)
             /\ SubSeq(new, p + 3, Len(new))
                   = SubSeq(OriginalContents, p + 1, Len(OriginalContents))

\* a retry body built with empty text for a body with two user entries and a
\* model entry after the last of them
C10_Witness ==
    /\ pc = "build"
    /\ requests # <<>>
    /\ accumulatedText = <<>>
    /\ Len(OriginalContents) = 3
    /\ OriginalContents[1].role = "user"
    /\ OriginalContents[2].role = "user"
    /\ OriginalContents[3].role = "model"
    /\ requests[Len(requests)].body.contents.items[3] = Entry("model", <<>>)

(***************************************************************************)
(* ServeHTTP and the handlers it calls, up to the call of Process.         *)
(***************************************************************************)
\* what the handlers leave alone, pc and originalRequestBody apart
sessionVars ==
    <<cfg, currentReader, accumulatedText, consecutiveRetryCount,
      isOutputtingFormalText, swallowModeActive, interruptionReason, bodies,
      toks, downstream, writeFailed, requests, last, spare, safeWriter>>

InitHandler ==
    /\ cfg \in [MaxConsecutiveRetries : {MaxRetryLimit},
                SwallowThoughtsAfterRetry : {TRUE},
                EnableRateLimit : BOOLEAN,
                UpstreamURLBase : {"http://upstream", ":"}]
    /\ inbound \in InboundRequests
    /\ waits = <<>>
    /\ initial = NoInitial
    /\ response = NoResponse
    /\ spare = <<>>
    /\ safeWriter = NewSafeWriter
    /\ originalRequestBody = EmptyMap
    /\ pc = "serve"
    /\ currentReader = 1
    /\ accumulatedText = <<>>
    /\ consecutiveRetryCount = 0
    /\ isOutputtingFormalText = FALSE
    /\ swallowModeActive = FALSE
    /\ interruptionReason = ""
    /\ bodies = << NewBody >>
    /\ toks = <<>>
    /\ downstream = <<>>
    /\ writeFailed = FALSE
    /\ requests = <<>>
    /\ last = NoStep

\* http.NewRequest returns an error: the upstream URL does not parse
NewRequestFails == cfg.UpstreamURLBase = ":"

\* ServeHTTP up to the dispatch; apiKey[len(apiKey)-4:] panics for a key of
\* fewer than four characters
ServeHTTP ==
    /\ pc = "serve"
    /\ LET apiKey == ApiKey(inbound) IN
       IF cfg.EnableRateLimit /\ apiKey # <<>>
       THEN IF Len(apiKey) < 4
            THEN pc' = "panic" /\ UNCHANGED waits
            ELSE pc' = "dispatch" /\ waits' = Append(waits, apiKey)
       ELSE pc' = "dispatch" /\ UNCHANGED waits
    /\ UNCHANGED <<inbound, initial, response, originalRequestBody, sessionVars>>

\* if r.Method == "OPTIONS" { HandleCORS(w, r); return }
HandleCORS ==
    /\ pc = "dispatch"
    /\ inbound.method = "OPTIONS"
    /\ response' = [status |-> 204, contentType |-> "", body |-> NotJSON("empty")]
    /\ pc' = "returned"
    /\ UNCHANGED <<inbound, waits, initial, originalRequestBody, sessionVars>>

\* HandleStreamingPost up to h.HTTPClient.Do(upstreamReq)
HandleStreamingPost ==
    /\ pc = "dispatch"
    /\ inbound.method = "POST" /\ inbound.isStream
    /\ LET injector == NewSystemPromptInjector(inbound.body) IN
       IF injector.err
       THEN /\ response' = JSONError(500, "Internal server error",
                                     "Failed to process request body")
            /\ pc' = "returned"
            /\ UNCHANGED initial
       ELSE IF injector.panic
       THEN /\ pc' = "panic"
            /\ UNCHANGED <<initial, response>>
       ELSE IF NewRequestFails
       THEN /\ response' = JSONError(500, "Internal server error",
                                     "Failed to create upstream request")
            /\ pc' = "returned"
            /\ UNCHANGED initial
       ELSE /\ initial' = [sent |-> TRUE, body |-> injector.processedBody,
                           requestBodyForRetry |-> injector.requestBodyForRetry,
                           status |-> 0, errorBody |-> NotJSON("empty")]
            /\ pc' = "initial"
            /\ UNCHANGED response
    /\ UNCHANGED <<inbound, waits, originalRequestBody, sessionVars>>

\* variant: every status below 300 starts the session
InitialOKBelow300(status) == status < 300

\* initialResponse.StatusCode == http.StatusOK
InitialOK(status) == status = 200

\* message of the fallback error of HandleStreamingPost
FallbackMessage(status) ==
    IF status = 429 THEN "Resource has been exhausted (e.g. check quota)."
    ELSE "Request failed"

\* HandleStreamingPost from the return of Do to the call of Process or the
\* return
InitialResponse ==
    /\ pc = "initial"
    /\ \/ /\ response' = JSONError(502, "Bad Gateway",
                                   "Failed to connect to upstream server")
          /\ pc' = "returned"
          /\ UNCHANGED <<initial, originalRequestBody>>
       \/ \E status \in ErrorStatuses \cup {200}, errorBody \in ErrorBodies :
             /\ initial' = [initial EXCEPT !.status = status,
                                           !.errorBody = errorBody]
             /\ IF InitialOK(status)
                THEN /\ errorBody = NotJSON("garbage")
                     /\ response' = StreamingResponse
                     /\ originalRequestBody' = initial.requestBodyForRetry
                     /\ pc' = "start"
                ELSE /\ response' = UpstreamErrorResponse(status, errorBody,
                                                          FallbackMessage(status))
                     /\ pc' = "returned"
                     /\ UNCHANGED originalRequestBody
    /\ UNCHANGED <<inbound, waits, sessionVars>>

\* HandleNonStreaming up to h.HTTPClient.Do(upstreamReq)
HandleNonStreaming ==
    /\ pc = "dispatch"
    /\ inbound.method # "OPTIONS"
    /\ ~(inbound.method = "POST" /\ inbound.isStream)
    /\ IF NewRequestFails
       THEN /\ response' = JSONError(500, "Internal server error",
                                     "Failed to create upstream request")
            /\ pc' = "returned"
            /\ UNCHANGED initial
       ELSE /\ initial' = [sent |-> TRUE,
                           body |-> IF inbound.method \notin {"GET", "HEAD"}
                                    THEN inbound.body.bytes ELSE NotJSON("empty"),
                           requestBodyForRetry |-> EmptyMap,
                           status |-> 0, errorBody |-> NotJSON("empty")]
            /\ pc' = "passthrough"
            /\ UNCHANGED response
    /\ UNCHANGED <<inbound, waits, originalRequestBody, sessionVars>>

\* HandleNonStreaming from the return of Do to the return
NonStreamingResponse ==
    /\ pc = "passthrough"
    /\ \/ /\ response' = JSONError(502, "Bad Gateway",
                                   "Failed to connect to upstream server")
          /\ UNCHANGED initial
       \/ \E status \in ErrorStatuses \cup {200}, errorBody \in ErrorBodies :
             /\ initial' = [initial EXCEPT !.status = status,
                                           !.errorBody = errorBody]
             /\ IF status # 200
                THEN response' = UpstreamErrorResponse(status, errorBody, "resp.Status")
                ELSE response' = [status |-> status, contentType |-> "",
                                  body |-> errorBody]
    /\ pc' = "returned"
    /\ UNCHANGED <<inbound, waits, originalRequestBody, sessionVars>>

NextHandler ==
    \/ ServeHTTP
    \/ HandleCORS
    \/ HandleStreamingPost
    \/ InitialResponse
    \/ HandleNonStreaming
    \/ NonStreamingResponse

SpecHandler == InitHandler /\ [][NextHandler]_vars

\* the inbound body decodes to a JSON object
ParsesAsObject(bytes) == bytes.json /\ bytes.value.type = "object"

\* ServeHTTP has passed the rate limit and called the handler of the request
Dispatched ==
    /\ pc \notin {"serve", "dispatch"}
    /\ (cfg.EnableRateLimit /\ ApiKey(inbound) # <<>>) => waits # <<>>

\* HandleStreamingPost has sent the initial upstream request
InitialSent ==
    /\ inbound.method = "POST" /\ inbound.isStream
    /\ initial.sent

\* systemInstruction.parts of a body, <<>> when there is no such sequence
PartsOf(body) ==
    IF /\ "systemInstruction" \in DOMAIN body
       /\ body["systemInstruction"].type = "object"
       /\ "parts" \in DOMAIN body["systemInstruction"].fields
       /\ body["systemInstruction"].fields["parts"].type = "array"
    THEN body["systemInstruction"].fields["parts"].items
    ELSE <<>>

\* a part whose text is the mandated instruction
IsSentinelPart(part) ==
    /\ part.type = "object"
    /\ DOMAIN part.fields = {"text"}
    /\ part.fields["text"] = JString("IMPORTANT: At the very end of your entire response, you must write the token [done] to signal completion. This is a mandatory technical requirement.")

SentinelCount(parts) == Cardinality({i \in 1..Len(parts) : IsSentinelPart(parts[i])})

\* the two maps agree on every key but key
SameExcept(before, after, key) ==
    /\ DOMAIN after = DOMAIN before \cup {key}
    /\ \A k \in DOMAIN before \ {key} : after[k] = before[k]

\* C11: when the inbound body of a streaming request parses as a JSON object,
\* systemInstruction.parts of the body sent upstream (parsed back) holds the
\* sentinel part once more than before: alone when systemInstruction was
\* absent, null or not a mapping (which is then replaced by {parts: [new]}),
\* alone when parts was absent or not a sequence (the other keys of
\* systemInstruction kept), and appended last after the existing parts
\* otherwise; the other keys of the body are as they were.
C11_SentinelPartAddedOnce ==
    (InitialSent /\ ParsesAsObject(inbound.body.bytes)) =>
       LET before == inbound.body.bytes.value.fields
           after == initial.body.value.fields
           old == before["systemInstruction"]
           new == after["systemInstruction"]
       IN
       /\ ParsesAsObject(initial.body)
       /\ initial.requestBodyForRetry = after
       /\ SameExcept(before, after, "systemInstruction")
       /\ SentinelCount(PartsOf(after)) = SentinelCount(PartsOf(before)) + 1
       /\ new.type = "object"
       /\ new.fields["parts"].type = "array"
       /\ IsSentinelPart(PartsOf(after)[Len(PartsOf(after))])
       /\ PartsOf(after) = PartsOf(before) \o << PartsOf(after)[Len(PartsOf(after))] >>
       /\ IF "systemInstruction" \notin DOMAIN before
          THEN DOMAIN new.fields = {"parts"}
          ELSE IF old.type # "object"
          THEN DOMAIN new.fields = {"parts"}
          ELSE SameExcept(old.fields, new.fields, "parts")

\* an injection into a body whose systemInstruction.parts held a user part
\* and the sentinel part already
C11_Witness ==
    /\ InitialSent
    /\ ParsesAsObject(inbound.body.bytes)
    /\ Len(PartsOf(inbound.body.bytes.value.fields)) = 2
    /\ SentinelCount(PartsOf(inbound.body.bytes.value.fields)) = 1
    /\ Len(PartsOf(initial.body.value.fields)) = 3
    /\ SentinelCount(PartsOf(initial.body.value.fields)) = 2

\* the parts of the legacy field system_instruction of a body
LegacyPartsOf(body) ==
    IF /\ "system_instruction" \in DOMAIN body
       /\ body["system_instruction"].type = "object"
       /\ "parts" \in DOMAIN body["system_instruction"].fields
       /\ body["system_instruction"].fields["parts"].type = "array"
    THEN body["system_instruction"].fields["parts"].items
    ELSE <<>>

\* C12: when the inbound body carries the legacy field system_instruction,
\* the body sent upstream has every part of the legacy instruction inside
\* systemInstruction.parts, before the sentinel part.
C12_LegacyInstructionMerged ==
    (InitialSent /\ ParsesAsObject(inbound.body.bytes)) =>
       LET legacy == LegacyPartsOf(inbound.body.bytes.value.fields)
           sent == PartsOf(initial.body.value.fields)
       IN  \A i \in 1..Len(legacy) :
              \E j \in 1..(Len(sent) - 1) : sent[j] = legacy[i]

\* C13: when the inbound body of a streaming request can be read and does
\* not parse as a JSON object, the request is not failed: HandleStreamingPost
\* sends the initial upstream request with exactly the inbound bytes as its
\* body, without the sentinel instruction.
C13_UnparsableBodyForwardedUnchanged ==
    ( /\ inbound.method = "POST" /\ inbound.isStream
      /\ inbound.body.readable
      /\ ~ParsesAsObject(inbound.body.bytes)
      /\ ~NewRequestFails
      /\ Dispatched )
    => /\ pc # "panic"
       /\ initial.sent
       /\ initial.body = inbound.body.bytes

\* the forwarded lines the sink has received, in write order
LineFrames == SelectSeq(downstream, LAMBDA f : f.kind = "line")

\* the line a comes before the line b: from an earlier body, or earlier in the
\* same body
Before(a, b) == a[1] < b[1] \/ (a[1] = b[1] /\ a[2] < b[2])

C15_WriteFailureEndsSession ==
    [][ /\ (~writeFailed /\ writeFailed' /\ pc' # "failed") =>
              /\ pc' = "aborted"
              /\ last'.op = "line"
              /\ last'.how \in {"abort", "write"}
              /\ requests' = requests
              /\ \A i \in 1..Len(downstream') : downstream'[i].kind = "line"
              /\ Len(downstream') = Len(downstream)
                    + (IF last'.how = "write" THEN 1 ELSE 0)
              /\ \A b \in 1..Len(bodies') : bodies'[b].eof
        /\ (pc = "aborted") =>
              /\ writeFailed
              /\ pc' = "aborted"
              /\ downstream' = downstream
              /\ requests' = requests
              /\ Len(toks') = Len(toks)
              /\ accumulatedText' = accumulatedText
              /\ consecutiveRetryCount' = consecutiveRetryCount
      ]_vars

\* a write failed in the stream of a retry, after a line was forwarded
C15_Witness ==
    /\ pc = "aborted"
    /\ writeFailed
    /\ Len(requests) = 1
    /\ Len(downstream) = 1
    /\ last.how = "abort"
    /\ last.src[1] = 2

\* the bytes are a JSON object whose key error holds an object
HasErrorObject(bytes) ==
    /\ ParsesAsObject(bytes)
    /\ "error" \in DOMAIN bytes.value.fields
    /\ bytes.value.fields["error"].type = "object"

C17_RateLimiterConsultedOnce ==
    LET key == IF inbound.apiKey # <<>> THEN inbound.apiKey
               ELSE IF inbound.authorization # <<>>
                       /\ Head(inbound.authorization) = "Bearer "
                    THEN Tail(inbound.authorization) ELSE <<>>
    IN  (cfg.EnableRateLimit /\ key # <<>>) =>
           /\ (pc # "serve") => waits = << key >>
           /\ initial.sent => waits = << key >>

\* C18: in every reachable state accumulatedText is the concatenation, in
\* write order, of the text of every non-thought chunk as it was written
\* downstream (the [done] token stripped, the synthesized [done] line left
\* out).
C18_AccumulatedTextIsWrittenText ==
    accumulatedText = FramesText(downstream)

\* C19: accumulatedText never holds thought text; a step that handles a
\* thought line (forwarded, swallowed or triggering a retry) leaves it
\* unchanged, and a thought line with a finish reason triggers
\* FINISH_DURING_THOUGHT.
C19_NoThoughtTextAccumulated ==
    [][ /\ \A i \in 1..Len(accumulatedText') : accumulatedText'[i] # "t"
        /\ (last' # last /\ last'.op = "line" /\ IsThoughtLine(last'.line)) =>
              /\ accumulatedText' = accumulatedText
              /\ last'.how \in {"write", "swallow", "retry", "abort"}
              /\ (ExtractFinishReason(last'.line) # "") =>
                    /\ last'.how = "retry"
                    /\ interruptionReason' = "FINISH_DURING_THOUGHT"
                    /\ downstream' = downstream \/ pc' = "failed"
      ]_vars

\* a thought line with finish reason STOP has triggered a retry after formal
\* text had been accumulated
C19_Witness ==
    /\ last.op = "line"
    /\ IsThoughtLine(last.line)
    /\ ExtractFinishReason(last.line) = "STOP"
    /\ last.how = "retry"
    /\ interruptionReason = "FINISH_DURING_THOUGHT"
    /\ accumulatedText = <<"a">>
    /\ pc = "request"

\* C20: while swallowModeActive is true a thought chunk is not written
\* downstream, and the flag goes from true to false, with the session going
\* on, only in a step that consumes a non-thought data line with text.
C20_SwallowEndsOnlyOnFormalText ==
    [][ /\ (swallowModeActive /\ last' # last /\ last'.op = "line"
              /\ IsThoughtLine(last'.line)) =>
              /\ last'.how \in {"swallow", "retry"}
              /\ \A i \in 1..Len(downstream') :
                    downstream'[i].kind = "line" => downstream'[i].src # last'.src
        /\ (swallowModeActive /\ ~swallowModeActive' /\ pc' = "loop") =>
              /\ last' # last
              /\ last'.op = "line"
              /\ IsDataLine(last'.line)
              /\ ~IsThoughtLine(last'.line)
              /\ ParseLineContent(last'.line).Text # <<>>
      ]_vars

(***************************************************************************)
(* The session over bodies made of every combination the classification    *)
(* order distinguishes: thought or not, blocked or not, finish reason.     *)
(***************************************************************************)
ClassifierLines ==
    { BlankLine,
      Ln(TRUE, <<Part(<<"a">>, FALSE)>>, "", FALSE),
      Ln(TRUE, <<Part(<<"t">>, TRUE)>>, "", FALSE),
      Ln(TRUE, <<Part(<<"a">>, FALSE)>>, "STOP", FALSE),
      Ln(TRUE, <<>>, "STOP", FALSE),
      Ln(TRUE, <<Part(<<"a">>, FALSE)>>, "MAX_TOKENS", FALSE),
      Ln(TRUE, <<Part(<<"a">>, FALSE)>>, "OTHER", FALSE),
      Ln(TRUE, <<Part(<<"t">>, TRUE)>>, "STOP", FALSE),
      Ln(TRUE, <<Part(<<"t">>, TRUE)>>, "OTHER", FALSE),
      Ln(TRUE, <<>>, "", TRUE),
      Ln(TRUE, <<Part(<<"a">>, FALSE)>>, "STOP", TRUE),
      Ln(TRUE, <<>>, "STOP", TRUE),
      Ln(TRUE, <<Part(<<"a">>, FALSE)>>, "OTHER", TRUE),
      Ln(TRUE, <<Part(<<"t">>, TRUE)>>, "", TRUE),
      Ln(TRUE, <<Part(<<"t">>, TRUE)>>, "STOP", TRUE) }

InitClassify ==
    /\ cfg \in [MaxConsecutiveRetries : {1}, SwallowThoughtsAfterRetry : BOOLEAN]
    /\ originalRequestBody = SessionBody
    /\ pc = "start"
    /\ currentReader = 1
    /\ accumulatedText = <<>>
    /\ consecutiveRetryCount = 0
    /\ isOutputtingFormalText = FALSE
    /\ swallowModeActive = FALSE
    /\ interruptionReason = ""
    /\ bodies = << NewBody >>
    /\ toks = <<>>
    /\ downstream = <<>>
    /\ writeFailed = FALSE
    /\ requests = <<>>
    /\ last = NoStep
    /\ AtProcess

NextClassify ==
    \/ ProcessStart
    \/ \E t \in 1..Len(toks) :
          SSELineIteratorOn(t, ClassifierLines, HasMore(toks[t].reader))
    \/ HandleLine
    \/ StreamEnd
    \/ RetryResponse

SpecClassify == InitClassify /\ [][NextClassify]_vars

\* the step handles the line as an interruption with the given reason
RetriesWith(reason) == last'.how = "retry" /\ interruptionReason' = reason

\* C21: a line is handled by the first rule that matches it, in the order:
\* in swallow mode a thought chunk with a finish reason is
\* FINISH_DURING_THOUGHT and any other thought chunk is dropped, blocked or
\* not; then a thought chunk with a finish reason is FINISH_DURING_THOUGHT;
\* then a blocked line is BLOCK, also when it carries STOP; then STOP with
\* empty trimmed text is FINISH_EMPTY_RESPONSE; then a finish reason outside
\* {"", STOP, MAX_TOKENS} is FINISH_ABNORMAL; then STOP or MAX_TOKENS is
\* forwarded and ends the session; any other line is forwarded.
C21_FirstMatchingRuleApplies ==
    [][ (last' # last /\ last'.op = "line") =>
           LET line == last'.line
               thought == line.data /\ \E i \in 1..Len(line.parts) : line.parts[i].thought
               fin == IF line.data THEN line.finishReason ELSE ""
               blocked == line.data /\ (line.blockReason \/ line.finishReason = "SAFETY")
               text == IF line.data THEN PartsText(line.parts) ELSE <<>>
           IN  IF swallowModeActive /\ thought /\ fin # ""
                  THEN RetriesWith("FINISH_DURING_THOUGHT")
               ELSE IF swallowModeActive /\ thought
                  THEN /\ last'.how = "swallow"
                       /\ pc' = "loop"
                       /\ downstream' = downstream
                       /\ interruptionReason' = interruptionReason
               ELSE IF fin # "" /\ thought
                  THEN RetriesWith("FINISH_DURING_THOUGHT")
               ELSE IF blocked
                  THEN RetriesWith("BLOCK")
               ELSE IF fin = "STOP" /\ AllSpaces(accumulatedText \o text)
                  THEN RetriesWith("FINISH_EMPTY_RESPONSE")
               ELSE IF fin \notin {"", "STOP", "MAX_TOKENS"}
                  THEN RetriesWith("FINISH_ABNORMAL")
               ELSE IF fin \in {"STOP", "MAX_TOKENS"}
                  THEN /\ last'.how \in {"write", "abort"}
                       /\ pc' \in {"done", "aborted"}
                       /\ interruptionReason' = interruptionReason
               ELSE /\ last'.how \in {"write", "abort"}
                    /\ pc' \in {"loop", "aborted"}
                    /\ interruptionReason' = interruptionReason
      ]_vars

\* a blocked thought chunk has been swallowed in swallow mode
C21_Witness ==
    /\ last.op = "line"
    /\ last.how = "swallow"
    /\ last.line = Ln(TRUE, <<Part(<<"t">>, TRUE)>>, "", TRUE)
    /\ swallowModeActive
    /\ pc = "loop"

\* formal text has been written downstream
FormalTextWritten == \E i \in 1..Len(downstream) : FormalFrame(downstream[i])

\* what swallowModeActive implies in a state
SwallowModeJustified ==
    /\ swallowModeActive =>
          /\ isOutputtingFormalText
          /\ interruptionReason # ""
          /\ cfg.SwallowThoughtsAfterRetry
    /\ isOutputtingFormalText => FormalTextWritten

\* C22: swallowModeActive implies that isOutputtingFormalText is true, that
\* formal text was written downstream and that an interruption has occurred;
\* isOutputtingFormalText never goes back to false; with
\* SwallowThoughtsAfterRetry disabled swallowModeActive is never true.
C22_SwallowModeImpliesFormalText ==
    [][ /\ SwallowModeJustified
        /\ SwallowModeJustified'
        /\ isOutputtingFormalText => isOutputtingFormalText'
        /\ ~cfg.SwallowThoughtsAfterRetry => ~swallowModeActive'
      ]_vars

\* swallow mode is on in the attempt that follows an interruption after text
C22_Witness ==
    /\ swallowModeActive
    /\ pc = "loop"
    /\ consecutiveRetryCount = 1
    /\ isOutputtingFormalText
    /\ FormalTextWritten
    /\ interruptionReason = "BLOCK"

(***************************************************************************)
(* BuildRetryRequestBody on the map NewSystemPromptInjector returns, for   *)
(* every inbound body of RetryBodies: MaxBuilds retries of one session,    *)
(* each with a text of BuildTexts.  A Go slice is its entries and the      *)
(* slots of its backing array beyond its length ("spare"); append writes   *)
(* in place when the new entries fit there.                                *)
(***************************************************************************)
\* slots the backing array of a decoded contents array has beyond its length
MaxSpare == 2

\* an entry of contents with a role, or without a string role
ContentsEntry(role, i) ==
    IF role = "none"
    THEN JObject([parts |-> JArray(<< JObject([text |-> JString(PosText(i))]) >>)])
    ELSE JObject([role |-> JString(role),
                  parts |-> JArray(<< JObject([text |-> JString(PosText(i))]) >>)])

\* values of the contents key of an inbound body
ContentsArrays ==
    UNION { { JArray([i \in 1..n |-> ContentsEntry(r[i], i)]) : r \in [1..n -> Roles] } :
               n \in 0..MaxContents }

\* inbound bodies of a session: objects with and without contents and
\* systemInstruction, and bytes that do not decode into a map
RetryBodies ==
    LET model == [model |-> JString("gemini")]
        withContents == { model, Put(model, "contents", JString("c")) }
                        \cup { Put(model, "contents", c) : c \in ContentsArrays }
        withInstruction ==
            withContents \cup
            { Put(m, "systemInstruction",
                  JObject([parts |-> JArray(<<UserPart, newSystemPromptPart>>)])) :
                 m \in withContents }
    IN  { [readable |-> TRUE, bytes |-> Bytes(JObject(m), "spaced")] : m \in withInstruction }
        \cup { [readable |-> TRUE, bytes |-> NotJSON("garbage")],
               [readable |-> TRUE, bytes |-> Bytes(JArray(<<>>), "compact")] }

\* contents, ok := retryBody["contents"].([]interface{}); if !ok { contents = []interface{}{} }
IsSlice(body, key) == Has(body, key) /\ body[key].type = "array"

Contents(body) == IF IsSlice(body, "contents") THEN body["contents"].items ELSE <<>>

\* role, ok := content["role"].(string); ok && role == "user"
IsUserEntry(content) ==
    /\ content.type = "object"
    /\ Has(content.fields, "role")
    /\ content.fields["role"].type = "string"
    /\ content.fields["role"].s = "user"

\* Go's lastUserIndex + 1 for a slice of JSON values; 0 when there is none
LastUserEntry(contents) ==
    IF \E i \in 1..Len(contents) : IsUserEntry(contents[i])
    THEN CHOOSE i \in 1..Len(contents) :
            /\ IsUserEntry(contents[i])
            /\ \A j \in (i + 1)..Len(contents) : ~IsUserEntry(contents[j])
    ELSE 0

\* history := []interface{}{ {role: model, ...}, {role: user, ...} }
history(accText) ==
    << JObject([role |-> JString("model"),
                parts |-> JArray(<< JObject([text |-> JString(accText)]) >>)]),
       JObject([role |-> JString("user"),
                parts |-> JArray(<< JObject([text |-> JString(ContinueText)]) >>)]) >>

\* the entries of newContents in both branches
newContents(contents, accText) ==
    LET lastUserIndex == LastUserEntry(contents) IN
    IF lastUserIndex # 0
    THEN SubSeq(contents, 1, lastUserIndex) \o history(accText)
         \o SubSeq(contents, lastUserIndex + 1, Len(contents))
    ELSE contents \o history(accText)

\* the map BuildRetryRequestBody returns
retryBody(originalBody, accText) ==
    Put(originalBody, "contents", JArray(newContents(Contents(originalBody), accText)))

\* newContents := append(contents, history...) when no entry has role user:
\* the spare slots of the backing array of the original contents afterwards
SpareAfterAppend(originalBody, slots, accText) ==
    IF /\ IsSlice(originalBody, "contents")
       /\ LastUserEntry(Contents(originalBody)) = 0
       /\ Len(slots) >= 2
    THEN history(accText) \o SubSeq(slots, 3, Len(slots))
    ELSE slots

\* variant: retryBody is the original map and not a copy of it
OriginalBodyAliased(originalBody, returned) == returned

\* retryBody := make(map[string]interface{}); for k, v := range originalBody
\* { retryBody[k] = v }: the assignments to retryBody["contents"] do not
\* reach the original map
OriginalBodyAfter(originalBody, returned) == originalBody

\* the handler state in which HandleStreamingPost calls Process for r
AtProcessOf(r) ==
    LET injector == NewSystemPromptInjector(r.body) IN
    /\ ~injector.err /\ ~injector.panic
    /\ inbound = r
    /\ waits = <<>>
    /\ initial = [sent |-> TRUE, body |-> injector.processedBody,
                  requestBodyForRetry |-> injector.requestBodyForRetry,
                  status |-> 200, errorBody |-> NotJSON("empty")]
    /\ response = StreamingResponse
    /\ safeWriter = NewSafeWriter
    /\ originalRequestBody = injector.requestBodyForRetry

InitRetry ==
    /\ cfg = [MaxConsecutiveRetries |-> MaxBuilds, SwallowThoughtsAfterRetry |-> TRUE]
    /\ \E body \in RetryBodies :
          AtProcessOf([method |-> "POST", isStream |-> TRUE, apiKey |-> <<>>,
                       authorization |-> <<>>, body |-> body])
    /\ spare \in IF IsSlice(originalRequestBody, "contents")
                 THEN { [i \in 1..n |-> Null] : n \in 0..MaxSpare }
                 ELSE { <<>> }
    /\ pc = "retry"
    /\ currentReader = 1
    /\ accumulatedText = <<>>
    /\ consecutiveRetryCount = 0
    /\ isOutputtingFormalText = FALSE
    /\ swallowModeActive = FALSE
    /\ interruptionReason = ""
    /\ bodies = << NewBody >>
    /\ toks = <<>>
    /\ downstream = <<>>
    /\ writeFailed = FALSE
    /\ requests = <<>>
    /\ last = NoStep

\* s.consecutiveRetryCount++; retryBody := BuildRetryRequestBody(...);
\* retryBodyBytes, err := json.Marshal(retryBody)
RetryStep ==
    /\ pc = "retry"
    /\ consecutiveRetryCount < cfg.MaxConsecutiveRetries
    /\ \E accText \in BuildTexts :
          LET returned == retryBody(originalRequestBody, accText) IN
          /\ accumulatedText' = accText
          /\ requests' = Append(requests, [body |-> Marshal(returned), reason |-> "DROP"])
          /\ originalRequestBody' = OriginalBodyAfter(originalRequestBody, returned)
          /\ spare' = SpareAfterAppend(originalRequestBody, spare, accText)
    /\ consecutiveRetryCount' = consecutiveRetryCount + 1
    /\ UNCHANGED <<inbound, waits, initial, response, safeWriter, cfg, pc,
                   currentReader, isOutputtingFormalText, swallowModeActive,
                   interruptionReason, bodies, toks, downstream, writeFailed, last>>

NextRetry == RetryStep

SpecRetry == InitRetry /\ [][NextRetry]_vars

\* the entry is the user message with the fixed directive
IsDirective(entry) ==
    /\ entry.type = "object"
    /\ "role" \in DOMAIN entry.fields
    /\ entry.fields["role"] = JString("user")
    /\ "parts" \in DOMAIN entry.fields
    /\ entry.fields["parts"] =
          JArray(<< JObject([text |-> JString(<<"Continue exactly where you left off without any preamble or repetition.">>)]) >>)

\* number of continuation blocks in a contents sequence
Blocks(contents) ==
    Cardinality({ i \in 2..Len(contents) :
                     /\ IsDirective(contents[i])
                     /\ contents[i - 1].type = "object"
                     /\ "role" \in DOMAIN contents[i - 1].fields
                     /\ contents[i - 1].fields["role"] = JString("model") })

\* the contents array of a body, <<>> when the body has none
ArrayOf(body) ==
    IF "contents" \in DOMAIN body /\ body["contents"].type = "array"
    THEN body["contents"].items ELSE <<>>

WithOneBlock(old, new) ==
    /\ Len(new) = Len(old) + 2
    /\ \E p \in 0..Len(old) :
          /\ SubSeq(new, 1, p) = SubSeq(old, 1, p)
          /\ new[p + 1].type = "object"
          /\ "role" \in DOMAIN new[p + 1].fields
          /\ new[p + 1].fields["role"] = JString("model")
          /\ IsDirective(new[p + 2])
          /\ SubSeq(new, p + 3, Len(new)) = SubSeq(old, p + 1, Len(old))

\* C24: the body of every retry request is the body that was sent in the
\* initial upstream call with the two-message continuation block added to
\* its contents: the other keys are the same, and so the sentinel
\* instruction is there the same number of times in every upstream request
\* of the session.
C24_RetryBuiltFromInitialBody ==
    \A k \in 1..Len(requests) :
       /\ ParsesAsObject(initial.body)
       /\ ParsesAsObject(requests[k].body)
       /\ SameExcept(initial.body.value.fields, requests[k].body.value.fields, "contents")
       /\ WithOneBlock(ArrayOf(initial.body.value.fields),
                       ArrayOf(requests[k].body.value.fields))
       /\ SentinelCount(PartsOf(requests[k].body.value.fields))
             = SentinelCount(PartsOf(initial.body.value.fields))

(***************************************************************************)
(* The session with the scheduling of its goroutines: a goroutine that can *)
(* take a step takes it, and s.client.Do returns.                          *)
(***************************************************************************)
\* text, a thought, the last chunk of the answer, a block
FairLines ==
    { Ln(TRUE, <<Part(<<"a">>, FALSE)>>, "", FALSE),
      Ln(TRUE, <<Part(<<"t">>, TRUE)>>, "", FALSE),
      Ln(TRUE, <<Part(<<"a">>, FALSE)>>, "STOP", FALSE),
      Ln(TRUE, <<>>, "", TRUE) }

\* the tokenizer goroutine t, when it has been started
FairLineIterator(t) ==
    /\ t \in 1..Len(toks)
    /\ SSELineIteratorOn(t, FairLines, HasMore(toks[t].reader))

InitFair ==
    /\ cfg \in [MaxConsecutiveRetries : 0..MaxRetryLimit,
                SwallowThoughtsAfterRetry : {TRUE}]
    /\ originalRequestBody = SessionBody
    /\ pc = "start"
    /\ currentReader = 1
    /\ accumulatedText = <<>>
    /\ consecutiveRetryCount = 0
    /\ isOutputtingFormalText = FALSE
    /\ swallowModeActive = FALSE
    /\ interruptionReason = ""
    /\ bodies = << NewBody >>
    /\ toks = <<>>
    /\ downstream = <<>>
    /\ writeFailed = FALSE
    /\ requests = <<>>
    /\ last = NoStep
    /\ AtProcess

NextFair ==
    \/ ProcessStart
    \/ \E t \in 1..(MaxRetryLimit + 1) : FairLineIterator(t)
    \/ HandleLine
    \/ StreamEnd
    \/ RetryResponse

\* every tokenizer reads on to the end of its body, Process goes on when it
\* can, and a retry request returns
Scheduling ==
    /\ WF_vars(ProcessStart)
    /\ \A t \in 1..(MaxRetryLimit + 1) : WF_vars(FairLineIterator(t))
    /\ WF_vars(HandleLine)
    /\ WF_vars(StreamEnd)
    /\ WF_vars(RetryResponse)

SpecFair == InitFair /\ [][NextFair]_vars /\ Scheduling

\* C25: Process returns in every session, and when it has returned it has
\* done so in one of three ways: success after a clean exit (the [done] line
\* written), failure after an interruption with the counter at the limit, or
\* an error after a downstream write failed.
C25_SessionTerminates ==
    /\ <>(pc \in {"done", "failed", "aborted"})
    /\ [](pc \in {"start", "loop", "request", "done", "failed", "aborted"})
    /\ []((pc = "done") =>
             /\ ~writeFailed
             /\ downstream # <<>>
             /\ downstream[Len(downstream)] = DoneFrame
             /\ ExtractFinishReason(last.line) \in {"STOP", "MAX_TOKENS"})
    /\ []((pc = "failed") =>
             /\ consecutiveRetryCount = cfg.MaxConsecutiveRetries
             /\ interruptionReason # ""
             /\ last.how = "retry")
    /\ []((pc = "aborted") => writeFailed /\ last.op = "line")

\* the session failed at the limit after every retry request had failed
C25_Witness ==
    /\ pc = "failed"
    /\ consecutiveRetryCount = MaxRetryLimit
    /\ Len(bodies) = 1
    /\ Len(toks) = MaxRetryLimit + 1
    /\ last.how = "retry"

\* C26: no line is consumed or written downstream by a tokenizer that was
\* started, after a failed retry request, on the body the engine had
\* abandoned at the interruption before it; and at any moment at most one
\* tokenizer that has not terminated reads from a given upstream body.
C26_AbandonedBodyNeverReadAgain ==
    /\ (last.op = "line") => ~(last.src[3] >= 2
                               /\ toks[last.src[3]].reader = toks[last.src[3] - 1].reader)
    /\ \A i \in 1..Len(downstream) :
          downstream[i].kind = "line" =>
             \A t \in 1..(downstream[i].src[3] - 1) :
                toks[t].reader # downstream[i].src[1]
    /\ \A t1, t2 \in 1..Len(toks) :
          (t1 < t2 /\ toks[t1].reader = toks[t2].reader) =>
             toks[t1].done \/ toks[t2].done

(***************************************************************************)
(* Sessions without retries whose body is longer than the line channel,    *)
(* with the scheduling of the two goroutines.                              *)
(***************************************************************************)
\* lines the body has beyond the capacity of the line channel
MaxExtraLines == 2

\* the first line of the body: text, the last chunk of the answer, a block
FirstLines ==
    { Ln(TRUE, <<Part(<<"a">>, FALSE)>>, "", FALSE),
      Ln(TRUE, <<Part(<<"a">>, FALSE)>>, "STOP", FALSE),
      Ln(TRUE, <<>>, "", TRUE) }

\* the lines after the first: text
LaterLines == { Ln(TRUE, <<Part(<<"a">>, FALSE)>>, "", FALSE) }

\* the tokenizer goroutine of the one attempt on such a body; the scanner
\* holds the lines of the body in its buffer, and returns them also after
\* the body has been closed
LongLineIterator ==
    /\ toks # <<>>
    /\ SSELineIteratorOn(1, IF bodies[1].n = 0 THEN FirstLines ELSE LaterLines,
                         bodies[1].n < lineChCap + MaxExtraLines)

InitLong ==
    /\ cfg = [MaxConsecutiveRetries |-> 0, SwallowThoughtsAfterRetry |-> TRUE]
    /\ originalRequestBody = SessionBody
    /\ pc = "start"
    /\ currentReader = 1
    /\ accumulatedText = <<>>
    /\ consecutiveRetryCount = 0
    /\ isOutputtingFormalText = FALSE
    /\ swallowModeActive = FALSE
    /\ interruptionReason = ""
    /\ bodies = << NewBody >>
    /\ toks = <<>>
    /\ downstream = <<>>
    /\ writeFailed = FALSE
    /\ requests = <<>>
    /\ last = NoStep
    /\ AtProcess

NextLong ==
    \/ ProcessStart
    \/ LongLineIterator
    \/ HandleLine
    \/ StreamEnd

SpecLong ==
    /\ InitLong
    /\ [][NextLong]_vars
    /\ WF_vars(ProcessStart)
    /\ WF_vars(LongLineIterator)
    /\ WF_vars(HandleLine)
    /\ WF_vars(StreamEnd)

\* C27: every tokenizer goroutine terminates, also when Process has stopped
\* receiving from its channel with more lines left in the body than the
\* channel holds; once Process has returned no tokenizer is blocked in a
\* send.
C27_TokenizersTerminate ==
    /\ <>[](\A t \in 1..Len(toks) : toks[t].done)
    /\ [](pc \in {"done", "failed", "aborted"} =>
             \A t \in 1..Len(toks) : Len(toks[t].ch) <= lineChCap)

(***************************************************************************)
(* SafeWriter under MaxCallers goroutines that each call Write and Flush   *)
(* up to MaxCalls times.  A goroutine is idle, waits in sw.mu.Lock()       *)
(* ("lock"), executes on the underlying sink ("sink"), or has returned     *)
(* from the sink with the deferred Unlock still to run ("unlock").         *)
(***************************************************************************)
InitWriter ==
    /\ cfg = [MaxConsecutiveRetries |-> 0, SwallowThoughtsAfterRetry |-> TRUE]
    /\ originalRequestBody = SessionBody
    /\ pc = "loop"
    /\ currentReader = 1
    /\ accumulatedText = <<>>
    /\ consecutiveRetryCount = 0
    /\ isOutputtingFormalText = FALSE
    /\ swallowModeActive = FALSE
    /\ interruptionReason = ""
    /\ bodies = << NewBody >>
    /\ toks = << NewTokenizer(1) >>
    /\ downstream = <<>>
    /\ writeFailed = FALSE
    /\ requests = <<>>
    /\ last = NoStep
    /\ inbound = SessionRequest
    /\ waits = <<>>
    /\ initial = [sent |-> TRUE,
                  body |-> NewSystemPromptInjector(SessionRequest.body).processedBody,
                  requestBodyForRetry |->
                      NewSystemPromptInjector(SessionRequest.body).requestBodyForRetry,
                  status |-> 200, errorBody |-> NotJSON("empty")]
    /\ response = StreamingResponse
    /\ spare = <<>>
    /\ \E isFlusher \in BOOLEAN :
          safeWriter = [NewSafeWriter EXCEPT !.flusher = isFlusher]

\* what the steps of SafeWriter leave alone
writerFrame ==
    <<cfg, originalRequestBody, pc, currentReader, accumulatedText,
      consecutiveRetryCount, isOutputtingFormalText, swallowModeActive,
      interruptionReason, bodies, toks, downstream, writeFailed, requests,
      last, inbound, waits, initial, response, spare>>

\* the goroutine c calls sw.Write(p) or sw.Flush()
Call(c, op) ==
    /\ safeWriter.at[c] = "idle"
    /\ safeWriter.calls[c] < MaxCalls
    /\ safeWriter' = [safeWriter EXCEPT !.at[c] = "lock", !.op[c] = op]
    /\ UNCHANGED writerFrame

\* variant: Lock returns while another goroutine holds the mutex
LockReturnsAlways == TRUE

\* sw.mu.Lock() returns when the mutex is unlocked
LockReturns == safeWriter.mu = 0

\* sw.mu.Lock() returns in c, and c goes on to sw.w.Write(p) or, if the sink
\* is an http.Flusher, to flusher.Flush()
Lock(c) ==
    /\ safeWriter.at[c] = "lock"
    /\ LockReturns
    /\ IF safeWriter.op[c] = "Flush" /\ ~safeWriter.flusher
       THEN safeWriter' = [safeWriter EXCEPT !.mu = c, !.at[c] = "unlock"]
       ELSE safeWriter' = [safeWriter EXCEPT !.mu = c, !.at[c] = "sink",
                                             !.inSink = @ \cup {c}]
    /\ UNCHANGED writerFrame

\* sw.w.Write(p) or flusher.Flush() returns in c
SinkReturns(c) ==
    /\ safeWriter.at[c] = "sink"
    /\ safeWriter' = [safeWriter EXCEPT !.at[c] = "unlock", !.inSink = @ \ {c}]
    /\ UNCHANGED writerFrame

\* defer sw.mu.Unlock() runs in c and the call returns
Unlock(c) ==
    /\ safeWriter.at[c] = "unlock"
    /\ safeWriter' = [safeWriter EXCEPT !.mu = 0, !.at[c] = "idle",
                                        !.calls[c] = @ + 1]
    /\ UNCHANGED writerFrame

NextWriter ==
    \E c \in 1..MaxCallers :
       \/ Call(c, "Write")
       \/ Call(c, "Flush")
       \/ Lock(c)
       \/ SinkReturns(c)
       \/ Unlock(c)

SpecWriter == InitWriter /\ [][NextWriter]_vars

\* C28: at most one goroutine executes Write or Flush on the underlying
\* sink at a time, and it is the one that holds the mutex; a goroutine
\* holds the mutex only between its Lock and the Unlock at its return, so
\* the holder is never itself waiting for the mutex and can always go on to
\* release it: no call deadlocks.
C28_WritesSerialized ==
    /\ Cardinality(safeWriter.inSink) <= 1
    /\ \A c \in safeWriter.inSink : safeWriter.mu = c /\ safeWriter.at[c] = "sink"
    /\ \A c \in 1..MaxCallers :
          /\ (safeWriter.at[c] \in {"sink", "unlock"}) <=> (safeWriter.mu = c)
          /\ (safeWriter.at[c] = "sink") <=> (c \in safeWriter.inSink)
    /\ (safeWriter.mu # 0) => safeWriter.at[safeWriter.mu] \in {"sink", "unlock"}
    /\ (\E c \in 1..MaxCallers : safeWriter.at[c] = "lock") =>
          \E d \in 1..MaxCallers : ENABLED (Lock(d) \/ SinkReturns(d) \/ Unlock(d))

\* a goroutine is in Write on the sink while another waits in Lock to flush
C28_Witness ==
    /\ safeWriter.at[1] = "sink"
    /\ safeWriter.op[1] = "Write"
    /\ safeWriter.at[2] = "lock"
    /\ safeWriter.op[2] = "Flush"
    /\ safeWriter.calls[1] = 1

====
